---------------------------- MODULE Spec2Model ----------------------------
(***************************************************************************)
(* Model of the DragAndDropFile component (src/unnamed/part_000): the      *)
(* collection of tracked files, the "uploading" flag, and the simulated    *)
(* upload driver uploadFiles with its timer-driven resumptions.            *)
(*                                                                         *)
(* React state is modelled by the variables files and uploading.  Every    *)
(* handler (and every resumption of the async driver after a timer) is one *)
(* action: its state updates are applied in order and the component is     *)
(* rendered again before the next event, so the closure a click handler    *)
(* sees is the one of the current state.                                   *)
(*                                                                         *)
(* Ids: Math.random().toString(36).substr(2, 9) is a draw from the        *)
(* strings the expression can give; nothing in the code compares a new id  *)
(* with the ids in use, so a draw may repeat an earlier one.  The model    *)
(* draws from NewId, any value at any time.                                *)
(*                                                                         *)
(* The field file of an entry is the File object handed in by the browser, *)
(* a new object for every file of every drop or selection; the model       *)
(* numbers these objects in the order in which their files are accepted.   *)
(***************************************************************************)
EXTENDS Integers, Sequences, FiniteSets

VARIABLES
    files,      \* useState([]) : the tracked files, in collection order
    uploading,  \* useState(false) : the "in progress" flag
    runs,       \* the invocations of uploadFiles suspended on a timer
    nextFile,   \* number of the next File object accepted
    fmt         \* the call of formatFileSize looked at: its argument and result

vars == <<files, uploading, runs, nextFile, fmt>>

---------------------------------------------------------------------------
(* Bounds of the model *)

\* longest batch of raw files handed to one intake
MaxBatch == 2
\* number of different strings the id expression can give
MaxIds == 2
\* number of File objects: the total number of files ever accepted
MaxFiles == 3
\* number of driver invocations that may be suspended at once
MaxRuns == 2
\* longest collection explored by the intake-only specification
MaxWide == 2
\* formatFileSize is applied to every byte count up to this one (and to the
\* samples FormatSamples)
MaxFormatBytes == 1200
\* a promise is rejected only while fewer entries than this are error
MaxFaults == 1

---------------------------------------------------------------------------
(* Raw files *)

ValidTypes ==
    { "application/pdf",
      "application/msword",
      "application/vnd.openxmlformats-officedocument.wordprocessingml.document",
      "text/plain",
      "image/jpeg",
      "image/png",
      "image/gif" }

maxSize == 10 * 1024 * 1024

\* a 2 MB PDF and a 15 MB PNG, raw files of the main specification
Pdf2MB == [name |-> "a.pdf", size |-> 2 * 1024 * 1024, type |-> "application/pdf"]
Png15MB == [name |-> "b.png", size |-> 15 * 1024 * 1024, type |-> "image/png"]

\* a GIF of exactly the largest accepted size
Gif10MB == [name |-> "f", size |-> maxSize, type |-> "image/gif"]

RawFiles == { Pdf2MB, Png15MB, Gif10MB }

\* a ZIP archive of the largest accepted size, a PDF one byte larger
Zip10MB == [name |-> "f", size |-> maxSize, type |-> "application/zip"]
PdfOver == [name |-> "f", size |-> maxSize + 1, type |-> "application/pdf"]

\* the raw files of the intake-only specification: one of every allow-listed
\* type at the size limit, and the files above
WideRawFiles ==
    RawFiles \cup { Zip10MB, PdfOver } \cup
    { [name |-> "f", size |-> maxSize, type |-> t] : t \in ValidTypes }

\* the batches (ordered sequences) of at most MaxBatch raw files from U
Batches(U) == UNION { [1..n -> U] : n \in 0..MaxBatch }

\* the empty batch, every raw file of the wide set alone and every ordered
\* pair of them
WideBatches == { << >> } \cup { <<a>> : a \in WideRawFiles }
                   \cup { <<a, b>> : a, b \in WideRawFiles }

\* the raw files handed in where failures are injected: one that is accepted,
\* one that is not
FaultRawFiles == { Pdf2MB, Png15MB }

---------------------------------------------------------------------------
(* processFiles *)

\* the size test written as file.size < maxSize
IsValidFileBelow(file) == file.type \in ValidTypes /\ file.size < maxSize

IsValidFile(file) == file.type \in ValidTypes /\ file.size <= maxSize

validFiles(newFiles) == SelectSeq(newFiles, IsValidFile)

\* the values Math.random().toString(36).substr(2, 9) can give; one
\* evaluation gives any of them, whatever the earlier ones gave
NewId == 1..MaxIds

\* the File object of the i-th file accepted by this intake
FileRef(i) == nextFile + i - 1

fileObject(i, file, id) ==
    [ id |-> id,
      file |-> FileRef(i),
      name |-> file.name,
      size |-> file.size,
      type |-> file.type,
      status |-> "pending",
      progress |-> 0 ]

fileObjects(valid, ids) == [i \in 1..Len(valid) |-> fileObject(i, valid[i], ids[i])]

\* the new entries put before the previous ones
PrependFiles(prev, objs) == objs \o prev

\* setFiles(prev => [...prev, ...fileObjects])
AppendFiles(prev, objs) == prev \o objs

processFiles(newFiles) ==
    LET valid == validFiles(newFiles) IN
    /\ nextFile + Len(valid) - 1 <= MaxFiles
    /\ \E ids \in [1..Len(valid) -> NewId] :
          files' = AppendFiles(files, fileObjects(valid, ids))
    /\ nextFile' = nextFile + Len(valid)
    /\ UNCHANGED <<uploading, runs, fmt>>

---------------------------------------------------------------------------
(* removeFile *)

\* file.id !== id
KeepsFile(file, id) == file.id # id

removeFile(id) ==
    /\ files' = SelectSeq(files, LAMBDA file : KeepsFile(file, id))
    /\ UNCHANGED <<uploading, runs, nextFile, fmt>>

\* the remove button is rendered for the entries that are not uploading
RemoveShown(file) == file.status # "uploading"

---------------------------------------------------------------------------
(* uploadFiles: the trigger *)

\* the "Upload All" button is rendered when some file is pending ...
TriggerShown == \E i \in 1..Len(files) : files[i].status = "pending"

\* the button without disabled={uploading}
TriggerNeverDisabled == TRUE

\* ... and is disabled while the flag is set
TriggerEnabled == ~uploading

\* the batch transition without the test of the status
MarkUploadingAll(prev) ==
    [i \in 1..Len(prev) |-> [prev[i] EXCEPT !.status = "uploading"]]

\* setFiles(prev => prev.map(pending -> uploading))
MarkUploading(prev) ==
    [i \in 1..Len(prev) |->
        IF prev[i].status = "pending"
        THEN [prev[i] EXCEPT !.status = "uploading"]
        ELSE prev[i]]

IsUploading(f) == f.status = "uploading"

\* files.filter(f => f.status === "uploading"), evaluated on the files of the
\* render whose handler was clicked; the loop reads only fileObj.id (the File
\* object of the entry tells which entry of the snapshot it is)
WorkSet(snapshot) ==
    LET sel == SelectSeq(snapshot, IsUploading)
    IN  [i \in 1..Len(sel) |-> [id |-> sel[i].id, file |-> sel[i].file]]

\* the entries this trigger moves from pending to uploading, by their File
\* objects (not read by the code)
MovedBy(prev) == { prev[i].file : i \in { j \in 1..Len(prev) : prev[j].status = "pending" } }

\* the driver suspended on its first timer
StartRun(work, moved) ==
    [work |-> work, k |-> 1, pc |-> "tick", progress |-> 0, moved |-> moved]

uploadFiles ==
    LET work == WorkSet(files) IN
    /\ files' = MarkUploading(files)
    /\ IF work = << >>
       THEN \* no await is reached: setUploading(true) and setUploading(false)
            \* are applied in the same handler
            /\ uploading' = FALSE
            /\ runs' = runs
       ELSE /\ Len(runs) < MaxRuns
            /\ uploading' = TRUE
            /\ runs' = Append(runs, StartRun(work, MovedBy(files)))
    /\ UNCHANGED <<nextFile, fmt>>

---------------------------------------------------------------------------
(* uploadFiles: the resumptions after a timer *)

ProgressStep == 20
ProgressMax == 100

\* for (...; progress <= 100; ...)
LoopContinues(progress) == progress <= ProgressMax

\* the progress update without the test of the id
SetProgressAll(prev, id, progress) ==
    [i \in 1..Len(prev) |-> [prev[i] EXCEPT !.progress = progress]]

\* setFiles(prev => prev.map(file.id === fileObj.id ? {...file, progress} : file))
SetProgress(prev, id, progress) ==
    [i \in 1..Len(prev) |->
        IF prev[i].id = id THEN [prev[i] EXCEPT !.progress = progress] ELSE prev[i]]

\* the success update writing the status of the catch branch
SetSuccessAsError(prev, id) ==
    [i \in 1..Len(prev) |->
        IF prev[i].id = id
        THEN [prev[i] EXCEPT !.status = "error", !.progress = 100]
        ELSE prev[i]]

\* setFiles(prev => prev.map(... ? {...file, status: "success", progress: 100} : file))
SetSuccess(prev, id) ==
    [i \in 1..Len(prev) |->
        IF prev[i].id = id
        THEN [prev[i] EXCEPT !.status = "success", !.progress = 100]
        ELSE prev[i]]

\* setFiles(prev => prev.map(file.id === fileObj.id ? {...file, status: "error"} : file))
SetError(prev, id) ==
    [i \in 1..Len(prev) |->
        IF prev[i].id = id THEN [prev[i] EXCEPT !.status = "error"] ELSE prev[i]]

\* the inner loop without progress += 20
AfterTickNoIncrement(run) == run

\* the driver after the progress update: progress += 20, then either the next
\* 200 ms timer of the inner loop or the 500 ms timer before the success update
AfterTick(run) ==
    LET p == run.progress + ProgressStep IN
    IF LoopContinues(p)
    THEN [run EXCEPT !.progress = p]
    ELSE [run EXCEPT !.progress = p, !.pc = "commit"]

\* the driver after the success update of a file that is not the last one
NextFile(run) == [run EXCEPT !.k = run.k + 1, !.pc = "tick", !.progress = 0]

RemoveAt(s, r) == [i \in 1..(Len(s) - 1) |-> IF i < r THEN s[i] ELSE s[i + 1]]

\* the 200 ms timer of run r fires: one progress update
TimerTick(r) ==
    LET run == runs[r]
        id == run.work[run.k].id
    IN  /\ run.pc = "tick"
        /\ files' = SetProgress(files, id, run.progress)
        /\ runs' = [runs EXCEPT ![r] = AfterTick(run)]
        /\ UNCHANGED <<uploading, nextFile, fmt>>

\* the 500 ms timer of run r fires: the success update, then the next file
\* or, after the last one, setUploading(false)
TimerCommit(r) ==
    LET run == runs[r]
        id == run.work[run.k].id
    IN  /\ run.pc = "commit"
        /\ files' = SetSuccess(files, id)
        /\ IF run.k < Len(run.work)
           THEN /\ runs' = [runs EXCEPT ![r] = NextFile(run)]
                /\ uploading' = uploading
           ELSE /\ runs' = RemoveAt(runs, r)
                /\ uploading' = FALSE
        /\ UNCHANGED <<nextFile, fmt>>

\* the promise run r awaits is rejected (setTimeout throws in its executor):
\* the catch branch marks the file, then the loop takes the next file or,
\* after the last one, setUploading(false)
TimerThrows(r) ==
    LET run == runs[r]
        id == run.work[run.k].id
    IN  /\ files' = SetError(files, id)
        /\ IF run.k < Len(run.work)
           THEN /\ runs' = [runs EXCEPT ![r] = NextFile(run)]
                /\ uploading' = uploading
           ELSE /\ runs' = RemoveAt(runs, r)
                /\ uploading' = FALSE
        /\ UNCHANGED <<nextFile, fmt>>

---------------------------------------------------------------------------
(* The summary panel *)

\* files.filter(f => f.status === "error").length
FailedCount(fs) == Cardinality({ i \in 1..Len(fs) : fs[i].status = "error" })

---------------------------------------------------------------------------
(* formatFileSize.  A text is the sequence of its characters.  Numbers are  *)
(* JavaScript doubles in the code; every value met here (integers below     *)
(* 2^31 and their quotients by a power of 1024) is exact as a double, so    *)
(* the model computes with integers and hundredths.                         *)

k == 1024

\* ["Bytes", "KB", "MB", "GB"]
sizes == << <<"B", "y", "t", "e", "s">>, <<"K", "B">>, <<"M", "B">>, <<"G", "B">> >>

\* sizes[i] is undefined from i = 4 on
undefinedText == <<"u", "n", "d", "e", "f", "i", "n", "e", "d">>

DigitChars == <<"0", "1", "2", "3", "4", "5", "6", "7", "8", "9">>

DigitValue(c) == (CHOOSE d \in 1..10 : DigitChars[d] = c) - 1

\* the decimal digits of a natural number
RECURSIVE IntChars(_)
IntChars(n) ==
    IF n < 10 THEN <<DigitChars[n + 1]>>
    ELSE IntChars(n \div 10) \o <<DigitChars[(n % 10) + 1]>>

RECURSIVE Pow(_, _)
Pow(b, e) == IF e = 0 THEN 1 ELSE b * Pow(b, e - 1)

\* Math.floor(Math.log(bytes) / Math.log(k)) for an integer bytes >= 1: the
\* quotient of the two logarithms is exactly e at k^e, and elsewhere it
\* differs from an integer by more than the rounding error of the division
RECURSIVE LogFloor(_)
LogFloor(bytes) == IF bytes < k THEN 0 ELSE 1 + LogFloor(bytes \div k)

\* floor(a * m / d) for m <= 200 and d a power of k, without a product
\* above 2^31
MulDivFloor(a, m, d) ==
    IF d < 32768 THEN (a * m) \div d
    ELSE ((a \div 32768) * m + ((a % 32768) * m) \div 32768) \div (d \div 32768)

\* num / den in hundredths, the nearest one, the larger one of two
HundredthsOf(num, den) ==
    100 * (num \div den) + (MulDivFloor(num % den, 200, den) + 1) \div 2

\* (num / den).toFixed(1), as toFixed(2) is modelled below
toFixedOne(num, den) ==
    LET t == 10 * (num \div den) + (MulDivFloor(num % den, 20, den) + 1) \div 2
    IN  IntChars(t \div 10) \o <<".">> \o <<DigitChars[(t % 10) + 1], "0">>

\* (num / den).toFixed(2): the integer part, a point and two decimals
toFixedTwo(num, den) ==
    LET n == HundredthsOf(num, den)
    IN  IntChars(n \div 100) \o <<".">>
            \o <<DigitChars[((n % 100) \div 10) + 1], DigitChars[(n % 10) + 1]>>

\* the value of a sequence of digits
RECURSIVE DigitsValue(_)
DigitsValue(cs) ==
    IF cs = << >> THEN 0
    ELSE 10 * DigitsValue(SubSeq(cs, 1, Len(cs) - 1)) + DigitValue(cs[Len(cs)])

\* parseFloat of a text "d...d.dd", in hundredths
parseFloat(cs) ==
    LET dot == CHOOSE j \in 1..Len(cs) : cs[j] = "."
    IN  100 * DigitsValue(SubSeq(cs, 1, dot - 1))
            + DigitsValue(SubSeq(cs, dot + 1, Len(cs)))

\* the text of a number given in hundredths, as string concatenation makes
\* it: no point for an integer, no zero at the end of the decimals
NumberChars(h) ==
    IntChars(h \div 100) \o
        ( IF h % 100 = 0 THEN << >>
          ELSE IF h % 10 = 0 THEN <<".", DigitChars[((h % 100) \div 10) + 1]>>
          ELSE <<".", DigitChars[((h % 100) \div 10) + 1], DigitChars[(h % 10) + 1]>> )

formatFileSize(bytes) ==
    IF bytes = 0 THEN <<"0", " ">> \o sizes[1]
    ELSE LET i == LogFloor(bytes)
         IN  NumberChars(parseFloat(toFixedTwo(bytes, Pow(k, i)))) \o <<" ">>
                 \o (IF i < Len(sizes) THEN sizes[i + 1] ELSE undefinedText)

---------------------------------------------------------------------------
\* no call of formatFileSize is looked at
NoCall == [bytes |-> 0, text |-> << >>]

Init ==
    /\ files = << >>
    /\ uploading = FALSE
    /\ runs = << >>
    /\ nextFile = 1
    /\ fmt = NoCall

HandleIntake == \E newFiles \in Batches(RawFiles) : processFiles(newFiles)

ClickRemove ==
    \E i \in 1..Len(files) : RemoveShown(files[i]) /\ removeFile(files[i].id)

\* a removal request for an id that is no longer in the collection
RemoveAbsent == \E id \in NewId \ { files[i].id : i \in 1..Len(files) } : removeFile(id)

ClickUpload == TriggerShown /\ TriggerEnabled /\ uploadFiles

TimerFires == \E r \in 1..Len(runs) : TimerTick(r) \/ TimerCommit(r)

Next ==
    \/ HandleIntake
    \/ ClickRemove
    \/ RemoveAbsent
    \/ ClickUpload
    \/ TimerFires

Spec == Init /\ [][Next]_vars

\* the timers fire: a run suspended on a timer is resumed in the end
FairSpec == Spec /\ WF_vars(TimerFires)

FaultIntake == \E newFiles \in Batches(FaultRawFiles) : processFiles(newFiles)

\* the awaited promises may be rejected
AwaitThrows ==
    /\ FailedCount(files) < MaxFaults
    /\ \E r \in 1..Len(runs) : TimerThrows(r)

NextFault ==
    \/ FaultIntake
    \/ ClickRemove
    \/ ClickUpload
    \/ TimerFires
    \/ AwaitThrows

SpecFault == Init /\ [][NextFault]_vars

\* byte counts around the powers of 1024, with decimals that round in both
\* directions, and the largest one TLC can hold
FormatSamples ==
    { 1152, 1536, 2047, 10485, 1048063, 1048571, 1048575, 1048576, 1048577,
      1179648, 2097152, 5247074, 10485760, 15728640, 1073217535, 1073736581,
      1073741823, 1073741824, 1073741825, 1207959552, 1610612736, 2147483647 }

FormatInputs == (0..MaxFormatBytes) \cup FormatSamples

\* formatFileSize alone: one call, with any of the inputs
InitFormat ==
    /\ files = << >>
    /\ uploading = FALSE
    /\ runs = << >>
    /\ nextFile = 1
    /\ fmt \in { [bytes |-> b, text |-> << >>] : b \in FormatInputs }

CallFormat ==
    /\ fmt.text = << >>
    /\ fmt' = [fmt EXCEPT !.text = formatFileSize(fmt.bytes)]
    /\ UNCHANGED <<files, uploading, runs, nextFile>>

NextFormat == CallFormat

SpecFormat == InitFormat /\ [][NextFormat]_vars

\* intake alone, with the wide set of raw files and collections of at most
\* MaxWide entries
WideIntake ==
    \E newFiles \in WideBatches :
        /\ Len(files) + Len(validFiles(newFiles)) <= MaxWide
        /\ processFiles(newFiles)

NextIntake == WideIntake

SpecIntake == Init /\ [][NextIntake]_vars

---------------------------------------------------------------------------
(* Reading the collection.  An entry is told from the others by its File   *)
(* object, which no other entry has.                                       *)

IdsOf(fs) == { fs[i].id : i \in 1..Len(fs) }

FilesOf(fs) == { fs[i].file : i \in 1..Len(fs) }

\* the position of the entry of a File object
PosOf(fs, h) == CHOOSE i \in 1..Len(fs) : fs[i].file = h

EntryOf(fs, h) == fs[PosOf(fs, h)]

Settled(f) == f.status \in { "success", "error" }

\* the id of the file the driver r is stepping, and its File object
CurrentId(r) == runs[r].work[runs[r].k].id

CurrentFile(r) == runs[r].work[runs[r].k].file

\* the File objects of the work set of a run
WorkFiles(run) == { run.work[j].file : j \in 1..Len(run.work) }

---------------------------------------------------------------------------
(* C1 *)

\* C1: a batch upload run processes every file that was pending when it was
\* triggered: once no run is active any more, every file a trigger made
\* uploading has reached success or error (two pending files end in success).
C1_RunSettlesPending ==
    runs = << >> => \A i \in 1..Len(files) : files[i].status # "uploading"

---------------------------------------------------------------------------
(* C2 *)

AllowedStatusChange ==
    { <<"pending", "uploading">>, <<"uploading", "success">>, <<"uploading", "error">> }

\* C2: in every step, a tracked file's status either stays or changes along
\* pending -> uploading, uploading -> success or uploading -> error; so no
\* file goes from pending to success or error, and success and error are final.
C2_StatusTransitions ==
    [][ \A h \in FilesOf(files) \cap FilesOf(files') :
          LET s == EntryOf(files, h).status
              t == EntryOf(files', h).status
          IN  s = t \/ <<s, t>> \in AllowedStatusChange ]_vars

---------------------------------------------------------------------------
(* C3 *)

\* the files a driver is stepping now: the uploading entries its updates reach
Advancing ==
    { h \in FilesOf(files) :
        /\ EntryOf(files, h).status = "uploading"
        /\ \E r \in 1..Len(runs) : CurrentId(r) = EntryOf(files, h).id }

\* C3: at most one file is being stepped, only the file being stepped has a
\* progress above 0 while uploading, and every file of the run before the one
\* being stepped has reached success or error.
C3_Sequential ==
    /\ Cardinality(Advancing) <= 1
    /\ \A i \in 1..Len(files) :
          files[i].status = "uploading" /\ files[i].progress > 0
              => files[i].file \in Advancing
    /\ \A r \in 1..Len(runs) : \A j \in 1..(runs[r].k - 1) :
          runs[r].work[j].file \in FilesOf(files)
              => Settled(EntryOf(files, runs[r].work[j].file))

---------------------------------------------------------------------------
(* C4 *)

ProgressValues == { 0, 20, 40, 60, 80, 100 }

\* C4: while a file is uploading its progress is one of 0, 20, ..., 100 and a
\* step leaves it or adds 20; a file becomes success only from progress 100,
\* and has progress 100 then.
C4_ProgressSteps ==
    [][ \A h \in FilesOf(files) \cap FilesOf(files') :
          LET f == EntryOf(files, h)
              g == EntryOf(files', h)
          IN  /\ g.status = "uploading" => g.progress \in ProgressValues
              /\ f.status = "uploading" /\ g.status = "uploading"
                    => g.progress \in { f.progress, f.progress + 20 }
              /\ f.status # "success" /\ g.status = "success"
                    => f.progress = 100 /\ g.progress = 100 ]_vars

---------------------------------------------------------------------------
(* C5 *)

C5_AllowList ==
    { "application/pdf", "application/msword",
      "application/vnd.openxmlformats-officedocument.wordprocessingml.document",
      "text/plain", "image/jpeg", "image/png", "image/gif" }

C5_Accepted(file) == file.type \in C5_AllowList /\ file.size <= 10485760

\* the raw files of a batch that are accepted, in the order of the batch
RECURSIVE C5_AcceptedOf(_)
C5_AcceptedOf(batch) ==
    IF batch = << >> THEN << >>
    ELSE IF C5_Accepted(Head(batch))
         THEN <<Head(batch)>> \o C5_AcceptedOf(Tail(batch))
         ELSE C5_AcceptedOf(Tail(batch))

RawOf(f) == [name |-> f.name, size |-> f.size, type |-> f.type]

\* C5: in every state, for every batch and whatever ids are drawn, the intake
\* of the batch adds one entry for each raw file whose type is allow-listed
\* and whose size is at most 10485760, whatever the other files of the batch
\* are, and nothing for the others, so that a batch with no such file leaves
\* the collection unchanged; every entry of the collection is such a file.
C5_IntakeValidation ==
    /\ \A i \in 1..Len(files) : C5_Accepted(RawOf(files[i]))
    /\ \A newFiles \in WideBatches :
          LET acc == C5_AcceptedOf(newFiles)
              valid == validFiles(newFiles)
          IN  \A ids \in [1..Len(valid) -> NewId] :
                LET after == AppendFiles(files, fileObjects(valid, ids))
                IN  /\ Len(after) = Len(files) + Len(acc)
                    /\ \A j \in 1..Len(acc) : RawOf(after[Len(files) + j]) = acc[j]
                    /\ acc = << >> => after = files

\* the collection holds the 2 MB PDF and a file of exactly 10485760 bytes
C5_Witness ==
    /\ \E i \in 1..Len(files) : RawOf(files[i]) = Pdf2MB
    /\ \E i \in 1..Len(files) : files[i].size = 10485760

---------------------------------------------------------------------------
(* C6 *)

\* C6: an intake leaves the previous entries where and as they are, and puts
\* after them the accepted files of the batch in their order, each pending
\* with progress 0; so also while a run is in flight.  (An intake that accepts
\* nothing changes nothing; a step that makes the collection longer is looked
\* at as the intake of every batch it can be the intake of.)
C6_IntakeAppends ==
    [][ Len(files') > Len(files) =>
        \A newFiles \in Batches(RawFiles) :
          processFiles(newFiles) =>
            LET acc == SelectSeq(newFiles, IsValidFile) IN
            /\ Len(files') = Len(files) + Len(acc)
            /\ \A i \in 1..Len(files) : files'[i] = files[i]
            /\ \A j \in 1..Len(acc) :
                  LET g == files'[Len(files) + j] IN
                  /\ RawOf(g) = acc[j]
                  /\ g.status = "pending"
                  /\ g.progress = 0 ]_vars

\* a file taken in while a run in flight is stepping another one, after two
\* different files taken in earlier
C6_Witness ==
    /\ runs # << >>
    /\ Len(files) >= 3
    /\ files[1].status = "uploading" /\ files[1].progress > 0
    /\ RawOf(files[1]) # RawOf(files[2])
    /\ files[Len(files)].status = "pending" /\ files[Len(files)].progress = 0

---------------------------------------------------------------------------
(* C7 *)

\* C7: the ids of the entries of the collection are pairwise distinct.
C7_IdsDistinct ==
    \A i, j \in 1..Len(files) : i # j => files[i].id # files[j].id

---------------------------------------------------------------------------
(* C8 *)

\* a step in which some file goes from pending to uploading: the trigger
TriggerStep ==
    \E h \in FilesOf(files) \cap FilesOf(files') :
        EntryOf(files, h).status = "pending" /\ EntryOf(files', h).status = "uploading"

\* C8: at most one run is active, the flag is set while one is, and the
\* trigger fires only when the flag is false (and some file is pending).
C8_NoReentrantRun ==
    /\ [](Len(runs) <= 1 /\ (runs # << >> => uploading))
    /\ [][TriggerStep => ~uploading /\ runs = << >> /\ TriggerShown]_vars

\* a run is active and a file is pending: the button is shown, and disabled
C8_Witness == runs # << >> /\ uploading /\ TriggerShown

---------------------------------------------------------------------------
(* C9 *)

\* C9: in the step that sets the flag back to false, every file that the
\* trigger of the ending run moved from pending to uploading, and that is
\* still in the collection, is success or error.
C9_ClearedAfterSettled ==
    [][ uploading /\ ~uploading' =>
          \A r \in 1..Len(runs) : \A h \in runs[r].moved \cap FilesOf(files') :
              Settled(EntryOf(files', h)) ]_vars

---------------------------------------------------------------------------
(* C10 *)

\* C10: removeFile(id) leaves the flag as it is; when an entry has the id it
\* takes that one entry out and leaves the others as they are and in their
\* order; when no entry has the id, the collection is unchanged.
C10_RemoveOnlyThat ==
    [][ \A id \in NewId :
          removeFile(id) =>
            /\ uploading' = uploading
            /\ id \notin IdsOf(files) => files' = files
            /\ id \in IdsOf(files) =>
                 \E p \in 1..Len(files) :
                    /\ files[p].id = id
                    /\ Len(files') = Len(files) - 1
                    /\ \A i \in 1..Len(files') :
                          files'[i] = (IF i < p THEN files[i] ELSE files[i + 1]) ]_vars

---------------------------------------------------------------------------
(* C11 *)

\* C11: no step takes an entry out of the collection while it is uploading,
\* and in every state every entry that is pending, success or error can be
\* removed (its remove button is there), whether or not a run is in flight.
C11_RemovalBlockedOnlyUploading ==
    /\ [][ \A h \in FilesOf(files) \ FilesOf(files') :
              EntryOf(files, h).status # "uploading" ]_vars
    /\ [](\A i \in 1..Len(files) :
              files[i].status \in { "pending", "success", "error" }
                  => ENABLED (RemoveShown(files[i]) /\ removeFile(files[i].id)))

---------------------------------------------------------------------------
(* C12 *)

\* C12: when the transfer of a file fails, the step marks that file error and
\* leaves every other entry as it is; the driver then takes the next file of
\* its work set or, after the last one, ends and clears the flag; a file that
\* is error is never stepped or changed again, and when a run ends every file
\* of its work set still in the collection is success or error.
C12_FailureIsolation ==
    /\ [][ \A r \in 1..Len(runs) :
              TimerThrows(r) =>
                LET run == runs[r] IN
                /\ Len(files') = Len(files)
                /\ \A i \in 1..Len(files) :
                      IF files[i].file = CurrentFile(r)
                      THEN files'[i].status = "error"
                      ELSE files'[i] = files[i]
                /\ IF run.k < Len(run.work)
                   THEN /\ Len(runs') = Len(runs)
                        /\ runs'[r].work = run.work
                        /\ runs'[r].k = run.k + 1
                        /\ uploading' = uploading
                   ELSE /\ Len(runs') = Len(runs) - 1
                        /\ ~uploading'
                        /\ \A h \in WorkFiles(run) \cap FilesOf(files') :
                              Settled(EntryOf(files', h)) ]_vars
    /\ [][ \A h \in FilesOf(files) \cap FilesOf(files') :
              EntryOf(files, h).status = "error"
                  => EntryOf(files', h) = EntryOf(files, h) ]_vars
    /\ [](\A r \in 1..Len(runs) :
              CurrentFile(r) \in FilesOf(files)
                  /\ EntryOf(files, CurrentFile(r)).status = "uploading")

---------------------------------------------------------------------------
(* C13 *)

C13_Units == << <<"B", "y", "t", "e", "s">>, <<"K", "B">>, <<"M", "B">>, <<"G", "B">> >>

C13_Powers == <<1, 1024, 1048576, 1073741824>>

\* the largest exponent e in 0..3 with 1024^e <= b
C13_Exponent(b) ==
    CHOOSE e \in 0..3 :
        C13_Powers[e + 1] <= b /\ (e = 3 \/ b < C13_Powers[e + 2])

C13_IsDigit(c) == \E d \in 1..10 : DigitChars[d] = c

C13_Digit(c) == (CHOOSE d \in 1..10 : DigitChars[d] = c) - 1

RECURSIVE C13_Natural(_)
C13_Natural(cs) ==
    IF cs = << >> THEN 0
    ELSE 10 * C13_Natural(SubSeq(cs, 1, Len(cs) - 1)) + C13_Digit(cs[Len(cs)])

\* cs is a decimal numeral with at most two decimals and without a zero at
\* its end or a spare zero at its start
C13_IsNumeral(cs) ==
    LET dots == { j \in 1..Len(cs) : cs[j] = "." }
        int == IF dots = {} THEN cs ELSE SubSeq(cs, 1, (CHOOSE j \in dots : TRUE) - 1)
    IN  /\ \A j \in 1..Len(cs) : cs[j] = "." \/ C13_IsDigit(cs[j])
        /\ Cardinality(dots) <= 1
        /\ Len(int) >= 1
        /\ Len(int) > 1 => int[1] # "0"
        /\ dots # {} => /\ Len(cs) - Len(int) \in { 2, 3 }
                        /\ cs[Len(cs)] # "0"

\* the value of a numeral, in hundredths
C13_Hundredths(cs) ==
    LET dots == { j \in 1..Len(cs) : cs[j] = "." }
    IN  IF dots = {} THEN 100 * C13_Natural(cs)
        ELSE LET dot == CHOOSE j \in dots : TRUE
                 dec == SubSeq(cs, dot + 1, Len(cs))
             IN  100 * C13_Natural(SubSeq(cs, 1, dot - 1))
                     + (IF Len(dec) = 1 THEN 10 * C13_Natural(dec) ELSE C13_Natural(dec))

\* h hundredths is a nearest value in hundredths to b / den: the distance is
\* at most half a hundredth (compared after a division by 1024 where the
\* products would pass 2^31)
C13_Nearest(h, b, den) ==
    LET t == h - 100 * (b \div den)
        rem == b % den
        sc == IF den > 1048576 THEN 1024 ELSE 1
        down == 200 * (rem \div sc) + (200 * (rem % sc)) \div sc
        up == IF (200 * (rem % sc)) % sc = 0 THEN down ELSE down + 1
    IN  /\ t \in 0..100
        /\ (2 * t - 1) * (den \div sc) <= down
        /\ up <= (2 * t + 1) * (den \div sc)

\* C13: formatFileSize(0) is "0 Bytes"; for bytes > 0 the result is a numeral
\* with at most two decimals and no zero at its end, a space and the unit of
\* the largest exponent e with 1024^e <= bytes, the numeral being bytes /
\* 1024^e rounded to hundredths; formatFileSize(1536) is "1.5 KB" and
\* formatFileSize(10485760) is "10 MB".
C13_FormatFileSize ==
    fmt.text # << >> =>
        LET b == fmt.bytes
            text == fmt.text
        IN  /\ b = 0 => text = <<"0", " ", "B", "y", "t", "e", "s">>
            /\ b = 1536 => text = <<"1", ".", "5", " ", "K", "B">>
            /\ b = 10485760 => text = <<"1", "0", " ", "M", "B">>
            /\ b > 0 =>
                 LET spaces == { j \in 1..Len(text) : text[j] = " " }
                     sp == CHOOSE j \in spaces : TRUE
                     num == SubSeq(text, 1, sp - 1)
                     e == C13_Exponent(b)
                 IN  /\ Cardinality(spaces) = 1
                     /\ SubSeq(text, sp + 1, Len(text)) = C13_Units[e + 1]
                     /\ C13_IsNumeral(num)
                     /\ C13_Nearest(C13_Hundredths(num), b, C13_Powers[e + 1])

\* the text of a byte count of one and a half GB has been made
C13_Witness == fmt.bytes = 1610612736 /\ fmt.text # << >>

---------------------------------------------------------------------------
(* C14 *)

\* C14: the trigger is one step in which every pending entry becomes
\* uploading and nothing else changes: the other entries keep their status,
\* every entry keeps its id, file, name, size, type and progress, and the
\* collection keeps its entries and their order.
C14_BatchTransition ==
    [][ ClickUpload =>
          /\ Len(files') = Len(files)
          /\ \A i \in 1..Len(files) :
                LET f == files[i]
                    g == files'[i]
                IN  /\ g.id = f.id /\ g.file = f.file /\ g.name = f.name
                    /\ g.size = f.size /\ g.type = f.type /\ g.progress = f.progress
                    /\ g.status = (IF f.status = "pending" THEN "uploading" ELSE f.status) ]_vars

\* just after a trigger that found a success entry, uploading entries and
\* pending ones
C14_Witness ==
    /\ \E r \in 1..Len(runs) :
          runs[r].k = 1 /\ runs[r].pc = "tick" /\ runs[r].progress = 0 /\ runs[r].moved # {}
    /\ \E i \in 1..Len(files) : files[i].status = "success"

---------------------------------------------------------------------------
(* C15 *)

\* C15: when an entry becomes success or error, it is a file of the work set
\* of a run, the files of that run before it in the collection are success or
\* error already and those after it are not yet.
C15_SettleInOrder ==
    [][ \A h \in FilesOf(files) \cap FilesOf(files') :
          ~Settled(EntryOf(files, h)) /\ Settled(EntryOf(files', h)) =>
            \E r \in 1..Len(runs) :
                /\ h \in WorkFiles(runs[r])
                /\ \A a \in (WorkFiles(runs[r]) \cap FilesOf(files)) \ {h} :
                      IF PosOf(files, a) < PosOf(files, h)
                      THEN Settled(EntryOf(files, a))
                      ELSE a \in FilesOf(files') /\ ~Settled(EntryOf(files', a)) ]_vars

---------------------------------------------------------------------------
(* C16 *)

\* C16: with the timers firing, a flag that is set is cleared in the end,
\* whatever is taken in and removed meanwhile; and a run ends, and the flag
\* is cleared, only by the resumption that follows the last timer of the last
\* file of the run.
C16_RunTerminates ==
    /\ uploading ~> ~uploading
    /\ [][ (uploading /\ ~uploading') \/ Len(runs') < Len(runs) =>
              \E r \in 1..Len(runs) :
                  /\ runs[r].pc = "commit"
                  /\ runs[r].k = Len(runs[r].work)
                  /\ files' = SetSuccess(files, CurrentId(r)) ]_vars

\* a run waits for the timer before its last success update, a file taken in
\* meanwhile is pending
C16_Witness ==
    /\ uploading
    /\ \E r \in 1..Len(runs) : runs[r].pc = "commit" /\ runs[r].k = Len(runs[r].work)
    /\ \E i \in 1..Len(files) : files[i].status = "pending"

---------------------------------------------------------------------------
(* C17 *)

\* C17: no tracked file is ever error, and the failed count of the summary
\* is 0.
C17_ErrorUnreachable ==
    /\ \A i \in 1..Len(files) : files[i].status # "error"
    /\ FailedCount(files) = 0

\* a run has ended and its file is success
C17_Witness ==
    /\ ~uploading /\ runs = << >>
    /\ \E i \in 1..Len(files) : files[i].status = "success" /\ files[i].progress = 100

---------------------------------------------------------------------------
(* C18 *)

\* C18: the work set of a run is made of the entries that were uploading
\* already when the trigger fired (none: no run starts); the entries the
\* trigger moved from pending to uploading are not in it, are uploading with
\* progress 0 as long as the run lasts, and still are when it ends.
C18_WorkSetIsSnapshot ==
    /\ [][ ClickUpload =>
              LET was == { h \in FilesOf(files) : EntryOf(files, h).status = "uploading" }
              IN  IF was = {} THEN runs' = runs /\ ~uploading'
                  ELSE /\ Len(runs') = Len(runs) + 1
                       /\ WorkFiles(runs'[Len(runs')]) = was
                       /\ Len(runs'[Len(runs')].work) = Cardinality(was) ]_vars
    /\ [](\A r \in 1..Len(runs) : \A h \in runs[r].moved :
              /\ h \notin WorkFiles(runs[r])
              /\ h \in FilesOf(files)
              /\ EntryOf(files, h).status = "uploading"
              /\ EntryOf(files, h).progress = 0)
    /\ [][ Len(runs') < Len(runs) =>
              \A r \in 1..Len(runs) : \A h \in runs[r].moved :
                  /\ h \in FilesOf(files')
                  /\ EntryOf(files', h).status = "uploading"
                  /\ EntryOf(files', h).progress = 0 ]_vars

---------------------------------------------------------------------------
(* C19 *)

\* C19: while the flag is false no run is active and every uploading entry
\* has progress 0; a step taken while the flag is false leaves every
\* uploading entry in the collection and as it is; and a trigger needs a
\* pending entry.
C19_StuckUploading ==
    /\ [](~uploading =>
              /\ runs = << >>
              /\ \A i \in 1..Len(files) :
                    files[i].status = "uploading" => files[i].progress = 0)
    /\ [][ ~uploading =>
              \A h \in FilesOf(files) :
                  EntryOf(files, h).status = "uploading" =>
                      h \in FilesOf(files') /\ EntryOf(files', h) = EntryOf(files, h) ]_vars
    /\ [][ ClickUpload => \E i \in 1..Len(files) : files[i].status = "pending" ]_vars

---------------------------------------------------------------------------
(* C20 *)

\* C20: a resumption of a run (progress, success or error update) keeps the
\* entries, their order and their id, file, name, size and type, and changes
\* nothing of an entry whose id is not the one of the file being processed;
\* applied with an id that no entry of the collection has, each of the three
\* updates leaves the collection as it is.
C20_TimerStepFrame ==
    /\ [][ \A r \in 1..Len(runs) :
              TimerTick(r) \/ TimerCommit(r) \/ TimerThrows(r) =>
                /\ Len(files') = Len(files)
                /\ \A i \in 1..Len(files) :
                      LET f == files[i]
                          g == files'[i]
                      IN  /\ g.id = f.id /\ g.file = f.file /\ g.name = f.name
                          /\ g.size = f.size /\ g.type = f.type
                          /\ f.id # CurrentId(r) => g = f ]_vars
    /\ [](\A id \in NewId \ IdsOf(files) :
              /\ \A p \in ProgressValues : SetProgress(files, id, p) = files
              /\ SetSuccess(files, id) = files
              /\ SetError(files, id) = files)

\* a file is being stepped; of the other entries one is error and one, with
\* another id, is uploading at progress 0
C20_Witness ==
    \E i, j, l \in 1..Len(files) :
        /\ files[i].status = "error"
        /\ files[j].status = "uploading" /\ files[j].progress = 40
        /\ files[l].status = "uploading" /\ files[l].id # files[j].id /\ files[l].progress = 0

=============================================================================
